---- MODULE Spec2Model ----
(***************************************************************************)
(* Treasure marketplace subgraph: the listing-lifecycle handlers of        *)
(* src/src/mapping.ts (ItemListed, ItemUpdated, ItemCanceled, ItemSold,    *)
(* the staging sell handler) and updateCollectionFloorAndTotal, over a     *)
(* keyed entity store of Collection, Token, Listing and UserToken.         *)
(*                                                                         *)
(* Entities carry the fields the handlers compute with.  Fields that are   *)
(* copied into an entity and never read back by a handler are left out:    *)
(* collectionName, tokenName, expires, transactionLink, the blockTimestamp *)
(* of a Sold record, and the token and user references of a UserToken.     *)
(* Strings built by formatPrice are sequences of one-character strings.    *)
(***************************************************************************)
EXTENDS Integers, Sequences, FiniteSets, TLC

\* ---------------------------------------------------------------- bounds
MaxEvents == 3
MaxRelistEvents == 5
MaxResaleEvents == 4
MaxFloorEvents == 5
MaxWhole == 10
MaxMantissa == 105

\* the (seller, tokenId) pairs events are drawn from: two sellers of token 1,
\* one of them also selling token 2
Offers == {<<"s1", 1>>, <<"s2", 1>>, <<"s1", 2>>}
RelistOffers == {<<"s1", 1>>, <<"s2", 1>>}
ResaleOffers == {<<"s1", 1>>}
Contracts == {"c1"}
Buyers == {"b1"}
Prices == {1, 2}
FloorPrices == {1, 2, 3}
Quantities == {1, 2}
ResaleQuantities == {1, 2, 3}
Timestamps == {1, 2}
OneBlock == {1}
\* log indexes: one that coincides with a block timestamp, one that does not
LogIndexes == {1, 3}
Holding == 2

\* ------------------------------------------------------------- constants
ZERO_BI == 0
\* a count step of two per listing
TWO_BI == 1 + 1
ONE_BI == 1
\* a nullable BigInt field that holds no value
NullBI == -1
\* the id of a Listing stored under the plain key carries no suffix
NoSuffix == -1

VARIABLES collections, tokens, listings, userTokens, last, nEvents, formatted

store == <<collections, tokens, listings, userTokens>>
vars == <<collections, tokens, listings, userTokens, last, nEvents, formatted>>

\* ------------------------------------------------------------ identifiers
getListingId(seller, nftAddress, tokenId) ==
  [seller |-> seller, nft |-> nftAddress, tokenId |-> tokenId, suffix |-> NoSuffix]

getTokenId(nftAddress, tokenId) == [nft |-> nftAddress, tokenId |-> tokenId]

\* a key rewriting that leaves the id as it is
SuffixDropped(id, n) == id

\* `${id}-${n}`
Suffixed(id, n) == [id EXCEPT !.suffix = n]

\* ------------------------------------------------------------- the store
Save(table, id, entity) ==
  [k \in (DOMAIN table) \cup {id} |-> IF k = id THEN entity ELSE table[k]]

Remove(table, id) == [k \in (DOMAIN table) \ {id} |-> table[k]]

DefaultListing ==
  [status |-> "", pricePerItem |-> ZERO_BI, quantity |-> ZERO_BI,
   blockTimestamp |-> 0, buyer |-> "", collection |-> "",
   token |-> getTokenId("", 0), user |-> "", nicePrice |-> <<>>, totalPrice |-> <<>>]

getOrCreateListing(id) == IF id \in DOMAIN listings THEN listings[id] ELSE DefaultListing

getOrCreateToken(id) ==
  IF id \in DOMAIN tokens THEN tokens[id]
  ELSE [collection |-> id.nft, floorPrice |-> NullBI]

getOrCreateCollection(id) ==
  IF id \in DOMAIN collections THEN collections[id]
  ELSE [standard |-> "", floorPrice |-> ZERO_BI, totalListings |-> ZERO_BI,
        listingIds |-> <<>>]

getOrCreateUserToken(id) ==
  IF id \in DOMAIN userTokens THEN userTokens[id] ELSE [quantity |-> ZERO_BI]

\* ------------------------------------------------------------ formatPrice
DECIMALS == 18

DigitChar(d) == <<"0", "1", "2", "3", "4", "5", "6", "7", "8", "9">>[d + 1]

RECURSIVE BigIntToString(_)
\* BigInt.toString() of a non-negative number: its decimal digits
BigIntToString(n) == IF n < 10 THEN <<DigitChar(n)>> ELSE BigIntToString(n \div 10) \o <<DigitChar(n % 10)>>

\* String.slice(0, -k): everything but the last k characters
SliceHead(str, k) == IF Len(str) <= k THEN <<>> ELSE SubSeq(str, 1, Len(str) - k)

\* String.slice(-k): the last k characters, the whole string when it is shorter
SliceTail(str, k) == IF Len(str) <= k THEN str ELSE SubSeq(str, Len(str) - k + 1, Len(str))

\* str.split(ch).join(""): every occurrence of ch removed
SplitJoin(str, ch) == SelectSeq(str, LAMBDA c : c # ch)

\* formatPrice on the number's decimal text (a BigInt may exceed any bounded
\* integer, its text does not)
formatPriceText(input) ==
  IF input = <<"0">> THEN <<"0">>
  ELSE LET value == SliceHead(input, DECIMALS)
           decimals == SplitJoin(SliceTail(input, DECIMALS), "0")
       IN value \o (IF Len(decimals) > 0 THEN <<".">> ELSE <<>>) \o decimals

formatPrice(number) == formatPriceText(BigIntToString(number))

\* ------------------------------------------ updateCollectionFloorAndTotal
\* Array.slice(from, to) with 0-based bounds, clamped as JavaScript does
ArraySlice(arr, from, to) ==
  LET hi == IF to > Len(arr) THEN Len(arr) ELSE to
  IN IF from >= hi THEN <<>> ELSE SubSeq(arr, from + 1, hi)

IsActive(lst, id) == id \in DOMAIN lst /\ lst[id].status = "Active"

\* TypedMap.set
MapSet(map, key, value) == [k \in (DOMAIN map) \cup {key} |-> IF k = key THEN value ELSE map[k]]

\* the body of the scan loop, for one value of index
ScanStep(st, index, listingsSnap, standard, lst) ==
  LET id == listingsSnap[index + 1]
  IN IF IsActive(lst, id)
     THEN LET listing == lst[id]
              floorPrice == st.floorPrice
              pricePerItem == listing.pricePerItem
              fp1 == IF standard = "ERC1155"
                       /\ (listing.token \notin DOMAIN st.floorPrices
                           \/ st.floorPrices[listing.token] > pricePerItem)
                     THEN MapSet(st.floorPrices, listing.token, pricePerItem)
                     ELSE st.floorPrices
              f1 == IF floorPrice = 0 \/ floorPrice > pricePerItem
                    THEN pricePerItem ELSE floorPrice
          IN [st EXCEPT !.floorPrices = fp1, !.floorPrice = f1]
     ELSE [st EXCEPT !.listingIds =
             ArraySlice(st.listingIds, 0, index)
               \o ArraySlice(st.listingIds, index + 1, Len(st.listingIds))]

RECURSIVE ScanListings(_, _, _, _, _)
\* for (let index = 0; index < listings.length; index++)
ScanListings(st, index, listingsSnap, standard, lst) ==
  IF index < Len(listingsSnap)
  THEN ScanListings(ScanStep(st, index, listingsSnap, standard, lst),
                    index + 1, listingsSnap, standard, lst)
  ELSE st

\* the second loop: every entry of floorPrices is written to its stored Token
WriteTokenFloors(toks, floorPrices) ==
  [k \in DOMAIN toks |->
     IF k \in DOMAIN floorPrices THEN [toks[k] EXCEPT !.floorPrice = floorPrices[k]]
     ELSE toks[k]]

\* the store's collections and tokens after the call, given the listings
updateCollectionFloorAndTotal(id, cols, toks, lst) ==
  IF id \notin DOMAIN cols
  THEN [collections |-> cols, tokens |-> toks]
  ELSE LET collection == cols[id]
           listingsSnap == collection.listingIds
           st0 == [floorPrice |-> ZERO_BI, listingIds |-> collection.listingIds,
                   floorPrices |-> <<>>]
           st == ScanListings(st0, 0, listingsSnap, collection.standard, lst)
       IN [collections |->
             Save(cols, id, [collection EXCEPT !.floorPrice = st.floorPrice,
                                               !.listingIds = st.listingIds,
                                               !.totalListings = Len(st.listingIds)]),
           tokens |-> WriteTokenFloors(toks, st.floorPrices)]

\* ---------------------------------------------------------------- events
\* the event a handler was called with: its kind and the parameters it read.
\* fullSale: an ItemSold for the whole quantity of a stored Active listing.
\* afterSale: an ItemListed that directly follows a full sale of the same key.
\* listedQuantity, soldSince: for an ItemListed, the quantity listed and 0; for
\* an ItemSold of part of a stored Active listing that directly follows that
\* ItemListed or such a sale of the same key, the quantity listed and the
\* quantity sold since; 0 and 0 otherwise.
\* onlyListing: an ItemListed for a collection that no stored Active listing
\* references.
\* pairSeller, pairPrice: for an ItemListed that directly follows an ItemListed
\* of the same token by another seller at another price, that seller and
\* price; "" and 0 otherwise.
Event(kind, seller, nftAddress, tokenId, pricePerItem, quantity, buyer) ==
  LET id == getListingId(seller, nftAddress, tokenId)
      sameKey == last.seller = seller /\ last.nft = nftAddress /\ last.tokenId = tokenId
      partialSale == /\ kind = "Sold"
                     /\ sameKey
                     /\ last.listedQuantity > 0
                     /\ IsActive(listings, id)
                     /\ quantity < listings[id].quantity
      paired == /\ kind = "Listed"
                /\ last.kind = "Listed"
                /\ last.nft = nftAddress /\ last.tokenId = tokenId
                /\ last.seller # seller
                /\ last.pricePerItem # pricePerItem
  IN [kind |-> kind, seller |-> seller, nft |-> nftAddress, tokenId |-> tokenId,
      pricePerItem |-> pricePerItem, quantity |-> quantity, buyer |-> buyer,
      fullSale |-> /\ kind = "Sold"
                   /\ IsActive(listings, id)
                   /\ listings[id].quantity = quantity,
      afterSale |-> kind = "Listed" /\ last.fullSale /\ sameKey,
      listedQuantity |-> IF kind = "Listed" THEN quantity
                         ELSE IF partialSale THEN last.listedQuantity ELSE 0,
      soldSince |-> IF partialSale THEN last.soldSince + quantity ELSE 0,
      onlyListing |-> /\ kind = "Listed"
                      /\ \A k \in DOMAIN listings :
                            ~(listings[k].status = "Active" /\ listings[k].collection = nftAddress),
      pairSeller |-> IF paired THEN last.seller ELSE "",
      pairPrice |-> IF paired THEN last.pricePerItem ELSE 0]

NoEvent ==
  [kind |-> "None", seller |-> "", nft |-> "", tokenId |-> 0, pricePerItem |-> 0,
   quantity |-> 0, buyer |-> "", fullSale |-> FALSE, afterSale |-> FALSE,
   listedQuantity |-> 0, soldSince |-> 0, onlyListing |-> FALSE,
   pairSeller |-> "", pairPrice |-> 0]

handleItemListed(seller, tokenAddress, tokenId, pricePerItem, quantity, timestamp) ==
  LET id == getListingId(seller, tokenAddress, tokenId)
      listing == getOrCreateListing(id)
      tokenKey == getTokenId(tokenAddress, tokenId)
      token == getOrCreateToken(tokenKey)
      collection == getOrCreateCollection(token.collection)
      floorPrice == collection.floorPrice
      newFloor == IF floorPrice = 0 \/ floorPrice > pricePerItem
                  THEN pricePerItem ELSE floorPrice
      tokenFloorPrice == token.floorPrice
      saveToken == collection.standard = "ERC1155"
                   /\ (tokenFloorPrice = NullBI \/ tokenFloorPrice > pricePerItem)
      collection1 == [collection EXCEPT
                        !.floorPrice = newFloor,
                        !.listingIds = collection.listingIds \o <<id>>,
                        !.totalListings = collection.totalListings + ONE_BI]
      listing1 == [listing EXCEPT
                     !.blockTimestamp = timestamp,
                     !.collection = token.collection,
                     !.pricePerItem = pricePerItem,
                     !.quantity = quantity,
                     !.status = "Active",
                     !.token = tokenKey,
                     !.user = seller]
      userToken == getOrCreateUserToken(id)
  IN /\ tokens' = IF saveToken
                  THEN Save(tokens, tokenKey, [token EXCEPT !.floorPrice = pricePerItem])
                  ELSE tokens
     /\ userTokens' = IF userToken.quantity = quantity
                      THEN Remove(userTokens, id)
                      ELSE Save(userTokens, id,
                                [userToken EXCEPT !.quantity = userToken.quantity - quantity])
     /\ collections' = Save(collections, token.collection, collection1)
     /\ listings' = Save(listings, id, listing1)
     /\ last' = Event("Listed", seller, tokenAddress, tokenId, pricePerItem, quantity, "")

handleItemCanceled(seller, nftAddress, tokenId) ==
  LET id == getListingId(seller, nftAddress, tokenId)
      listing == getOrCreateListing(id)
      userToken == getOrCreateUserToken(id)
      userToken1 == [userToken EXCEPT !.quantity = userToken.quantity + listing.quantity]
      listings1 == Remove(listings, id)
      recalc == updateCollectionFloorAndTotal(nftAddress, collections, tokens, listings1)
  IN /\ listings' = listings1
     /\ userTokens' = Save(userTokens, id, userToken1)
     /\ collections' = recalc.collections
     /\ tokens' = recalc.tokens
     /\ last' = Event("Canceled", seller, nftAddress, tokenId, 0, 0, "")

handleItemSold(seller, buyer, nftAddress, tokenId, quantity, logIndex) ==
  LET id == getListingId(seller, nftAddress, tokenId)
      listing == getOrCreateListing(id)
      listing1 == IF listing.quantity = quantity THEN listing
                  ELSE [listing EXCEPT !.quantity = listing.quantity - quantity]
      listings1 == IF listing.quantity = quantity THEN Remove(listings, id)
                   ELSE Save(listings, id, listing1)
      listings2 == IF Suffixed(id, logIndex) \in DOMAIN listings1
                   THEN Remove(listings1, Suffixed(id, logIndex))
                   ELSE listings1
      soldId == Suffixed(id, listing1.blockTimestamp)
      sold == IF soldId \in DOMAIN listings2 THEN listings2[soldId] ELSE DefaultListing
      pricePerItem == listing1.pricePerItem
      updatedQuantity == sold.quantity + quantity
      sold1 == [sold EXCEPT
                  !.buyer = buyer,
                  !.collection = listing1.collection,
                  !.pricePerItem = pricePerItem,
                  !.nicePrice = formatPrice(pricePerItem),
                  !.quantity = updatedQuantity,
                  !.status = "Sold",
                  !.token = listing1.token,
                  !.totalPrice = formatPrice(pricePerItem * updatedQuantity),
                  !.user = seller]
      listings3 == Save(listings2, soldId, sold1)
      recalc == updateCollectionFloorAndTotal(nftAddress, collections, tokens, listings3)
  IN /\ listings' = listings3
     /\ collections' = recalc.collections
     /\ tokens' = recalc.tokens
     /\ UNCHANGED userTokens
     /\ last' = Event("Sold", seller, nftAddress, tokenId, 0, quantity, buyer)

\* handleItemUpdated past its guard, for the listing it loaded
ItemUpdatedBody(listing, seller, nftAddress, tokenId, pricePerItem, quantity, timestamp) ==
  LET listingId == getListingId(seller, nftAddress, tokenId)
      userToken == getOrCreateUserToken(listingId)
      newQuantity == userToken.quantity + (listing.quantity - quantity)
      listing1 == [listing EXCEPT
                     !.blockTimestamp =
                        IF listing.pricePerItem # pricePerItem
                        THEN timestamp ELSE listing.blockTimestamp,
                     !.quantity = quantity,
                     !.pricePerItem = pricePerItem]
      listings1 == Save(listings, listingId, listing1)
      recalc == updateCollectionFloorAndTotal(nftAddress, collections, tokens, listings1)
  IN /\ userTokens' =
          IF listing.quantity # quantity
          THEN IF newQuantity = ZERO_BI
               THEN Remove(userTokens, listingId)
               ELSE Save(userTokens, listingId, [userToken EXCEPT !.quantity = newQuantity])
          ELSE userTokens
     /\ listings' = listings1
     /\ collections' = recalc.collections
     /\ tokens' = recalc.tokens
     /\ last' = Event("Updated", seller, nftAddress, tokenId, pricePerItem, quantity, "")

\* a handleItemUpdated that takes the listing from the accessor, as the other
\* handlers do, so that its guard never fires
handleItemUpdatedNoGuard(seller, nftAddress, tokenId, pricePerItem, quantity, timestamp) ==
  ItemUpdatedBody(getOrCreateListing(getListingId(seller, nftAddress, tokenId)),
                  seller, nftAddress, tokenId, pricePerItem, quantity, timestamp)

handleItemUpdated(seller, nftAddress, tokenId, pricePerItem, quantity, timestamp) ==
  LET listingId == getListingId(seller, nftAddress, tokenId)
  IN IF listingId \notin DOMAIN listings
     THEN /\ UNCHANGED store
          /\ last' = Event("Updated", seller, nftAddress, tokenId, pricePerItem, quantity, "")
     ELSE ItemUpdatedBody(listings[listingId], seller, nftAddress, tokenId,
                          pricePerItem, quantity, timestamp)

handleItemSoldStaging(buyer, nftAddress, tokenId, quantity) ==
  LET id == getListingId(buyer, nftAddress, tokenId)
  IN /\ IF id \in DOMAIN userTokens
        THEN LET userToken == userTokens[id]
             IN userTokens' =
                  IF quantity = userToken.quantity
                  THEN Remove(userTokens, id)
                  ELSE Save(userTokens, id,
                            [userToken EXCEPT !.quantity = userToken.quantity - quantity])
        ELSE UNCHANGED userTokens
     /\ UNCHANGED <<collections, tokens, listings>>
     /\ last' = Event("SoldStaging", "", nftAddress, tokenId, 0, quantity, buyer)

\* ---------------------------------------------------------- specification
\* n zeros
Zeros(n) == [i \in 1..n |-> "0"]

\* BigInt.toString() of whole * 10^18 + mantissa * 10^shift, for a mantissa
\* times 10^shift below 10^18
AmountText(whole, mantissa, shift) ==
  LET fraction == IF mantissa = 0 THEN <<>> ELSE BigIntToString(mantissa) \o Zeros(shift)
  IN IF whole = 0
     THEN IF mantissa = 0 THEN <<"0">> ELSE fraction
     ELSE BigIntToString(whole) \o Zeros(DECIMALS - Len(fraction)) \o fraction

\* the amount formatPrice was last called with, and the string it returned
Amount(whole, mantissa, shift, output) ==
  [whole |-> whole, mantissa |-> mantissa, shift |-> shift, output |-> output]

NoAmount == Amount(0, 0, 0, <<>>)

StoredCollection(standard) ==
  [c \in Contracts |-> [standard |-> standard, floorPrice |-> ZERO_BI,
                        totalListings |-> ZERO_BI, listingIds |-> <<>>]]

Holdings ==
  [id \in {getListingId(o[1], c, o[2]) : o \in Offers, c \in Contracts} |->
     [quantity |-> Holding]]

\* No Listing is stored.  Either the whole store is empty, or the
\* token-transfer mappings have already stored the ERC1155 Collection and
\* each seller's UserToken with the units the seller holds.  (A collection
\* created by handleItemListed has no standard and is handled as every
\* collection that is not ERC1155.)
Init ==
  /\ \/ collections = <<>> /\ userTokens = <<>>
     \/ collections = StoredCollection("ERC1155") /\ userTokens = Holdings
  /\ tokens = <<>>
  /\ listings = <<>>
  /\ last = NoEvent
  /\ nEvents = 0
  /\ formatted = NoAmount

ItemListedAt(offers, prices, quantities, timestamps) ==
  \E o \in offers, c \in Contracts, p \in prices, q \in quantities, ts \in timestamps :
     handleItemListed(o[1], c, o[2], p, q, ts)

ItemListed(offers, quantities, timestamps) ==
  ItemListedAt(offers, Prices, quantities, timestamps)

ItemCanceled(offers) ==
  \E o \in offers, c \in Contracts : handleItemCanceled(o[1], c, o[2])

ItemSold(offers, quantities, logIndexes) ==
  \E o \in offers, b \in Buyers, c \in Contracts, q \in quantities, li \in logIndexes :
     handleItemSold(o[1], b, c, o[2], q, li)

ItemUpdated(offers, quantities, timestamps) ==
  \E o \in offers, c \in Contracts, p \in Prices, q \in quantities, ts \in timestamps :
     handleItemUpdated(o[1], c, o[2], p, q, ts)

ItemSoldStaging(offers, quantities) ==
  \E o \in offers, c \in Contracts, q \in quantities :
     handleItemSoldStaging(o[1], c, o[2], q)

\* one event is handled to completion
Step(maxEvents) ==
  /\ nEvents < maxEvents
  /\ nEvents' = nEvents + 1
  /\ UNCHANGED formatted

Next ==
  /\ Step(MaxEvents)
  /\ \/ ItemListed(Offers, Quantities, OneBlock)
     \/ ItemCanceled(Offers)
     \/ ItemSold(Offers, Quantities, LogIndexes)
     \/ ItemUpdated(Offers, Quantities, OneBlock)
     \/ ItemSoldStaging(Offers, Quantities)

\* event streams about every offer, all listed and updated in one block
Spec == Init /\ [][Next]_vars

\* event streams without a sale
NextNoSale ==
  /\ Step(MaxEvents)
  /\ \/ ItemListed(Offers, Quantities, OneBlock)
     \/ ItemCanceled(Offers)
     \/ ItemUpdated(Offers, Quantities, OneBlock)

SpecNoSale == Init /\ [][NextNoSale]_vars

\* longer event streams: two sellers of one token, single units, one block
NextRelist ==
  /\ Step(MaxRelistEvents)
  /\ \/ ItemListed(RelistOffers, {1}, OneBlock)
     \/ ItemCanceled(RelistOffers)
     \/ ItemSold(RelistOffers, {1}, {3})
     \/ ItemUpdated(RelistOffers, {1}, OneBlock)
     \/ ItemSoldStaging(RelistOffers, {1})

SpecRelist == Init /\ [][NextRelist]_vars

\* event streams about one seller's listing of one token, over two blocks
NextResale ==
  /\ Step(MaxResaleEvents)
  /\ \/ ItemListed(ResaleOffers, ResaleQuantities, Timestamps)
     \/ ItemCanceled(ResaleOffers)
     \/ ItemSold(ResaleOffers, ResaleQuantities, LogIndexes)
     \/ ItemUpdated(ResaleOffers, Quantities, Timestamps)
     \/ ItemSoldStaging(ResaleOffers, Quantities)

SpecResale == Init /\ [][NextResale]_vars

\* listings and cancellations of one token by two sellers, at three prices
NextTokenFloor ==
  /\ Step(MaxFloorEvents)
  /\ \/ ItemListedAt(RelistOffers, FloorPrices, {1}, OneBlock)
     \/ ItemCanceled(RelistOffers)

SpecTokenFloor == Init /\ [][NextTokenFloor]_vars

\* an amount whose formatting is pending (formatPrice never returns "")
Amounts ==
  { Amount(whole, mantissa, shift, <<>>) :
      whole \in 0..MaxWhole, mantissa \in 0..MaxMantissa, shift \in 0..(DECIMALS - 1) }

\* formatPrice called on one amount
InitFormat ==
  /\ collections = <<>>
  /\ userTokens = <<>>
  /\ tokens = <<>>
  /\ listings = <<>>
  /\ last = NoEvent
  /\ nEvents = 0
  /\ formatted \in Amounts
  /\ Len(BigIntToString(formatted.mantissa)) + formatted.shift <= DECIMALS
  /\ formatted.mantissa = 0 => formatted.shift = 0

FormatAmount ==
  /\ formatted.output = <<>>
  /\ formatted' = [formatted EXCEPT !.output =
        formatPriceText(AmountText(formatted.whole, formatted.mantissa, formatted.shift))]

NextFormat ==
  /\ FormatAmount
  /\ UNCHANGED <<store, last, nEvents>>

SpecFormat == InitFormat /\ [][NextFormat]_vars

\* ================================================================ claims
\* --- the decimal rendering of an amount, as the specification defines it
RECURSIVE StripTrailingZeros(_)
StripTrailingZeros(str) ==
  IF Len(str) > 0 /\ str[Len(str)] = "0"
  THEN StripTrailingZeros(SubSeq(str, 1, Len(str) - 1))
  ELSE str

\* the 18-digit zero-padded fraction mantissa * 10^shift
Fraction18(mantissa, shift) ==
  LET digits == BigIntToString(mantissa) \o Zeros(shift)
  IN Zeros(DECIMALS - Len(digits)) \o digits

\* the decimal rendering the specification gives for whole * 10^18 + fraction
DecimalString(whole, mantissa, shift) ==
  BigIntToString(whole) \o
    (IF mantissa = 0 THEN <<>>
     ELSE <<".">> \o StripTrailingZeros(Fraction18(mantissa, shift)))

EventId(e) == getListingId(e.seller, e.nft, e.tokenId)

\* the stored Active listings that reference collection c
ActiveOf(c) ==
  {id \in DOMAIN listings : listings[id].status = "Active" /\ listings[id].collection = c}

\* the stored Active listings that reference token tk
ActiveOfToken(tk) ==
  {id \in DOMAIN listings : listings[id].status = "Active" /\ listings[id].token = tk}

MinPrice(ids) ==
  CHOOSE p \in {listings[id].pricePerItem : id \in ids} :
    \A id \in ids : p <= listings[id].pricePerItem

\* C1 - Floor correctness: after every event each Collection's floorPrice is
\* the minimum pricePerItem over the stored Active listings that reference
\* the collection, and zero when there is none.
C1_FloorCorrectness ==
  \A c \in DOMAIN collections :
    collections[c].floorPrice =
      IF ActiveOf(c) = {} THEN 0 ELSE MinPrice(ActiveOf(c))

\* C2 - Per-token floor: after every event, every stored Token of an ERC1155
\* collection has as floorPrice the minimum pricePerItem of the stored Active
\* listings that reference it, and holds no price when it has none.
C2_TokenFloor ==
  \A tk \in DOMAIN tokens :
    (tokens[tk].collection \in DOMAIN collections
     /\ collections[tokens[tk].collection].standard = "ERC1155")
    => IF ActiveOfToken(tk) = {}
       THEN tokens[tk].floorPrice \in {NullBI, ZERO_BI}
       ELSE tokens[tk].floorPrice = MinPrice(ActiveOfToken(tk))

\* C3 - UserToken non-negativity: no stored UserToken has a quantity below
\* zero.
C3_UserTokenNonNegative ==
  \A id \in DOMAIN userTokens : userTokens[id].quantity >= 0

\* C4 - Zero-quantity UserTokens are deleted: after every event no stored
\* UserToken has quantity zero.
C4_NoZeroUserToken ==
  \A id \in DOMAIN userTokens : userTokens[id].quantity # 0

\* UserToken.quantity plus the quantity of the Active listing, each 0 when
\* the entity is absent
Inventory(uts, lst, id) ==
  (IF id \in DOMAIN uts THEN uts[id].quantity ELSE 0)
  + (IF IsActive(lst, id) THEN lst[id].quantity ELSE 0)

\* C5 - Inventory conservation: in an event stream of ItemListed,
\* ItemUpdated and ItemCanceled only, no event changes, for any (seller,
\* contract, tokenId), the sum of the UserToken quantity and the Active
\* listing's quantity.
C5_InventoryConservation ==
  [][\A o \in Offers, c \in Contracts :
       Inventory(userTokens', listings', getListingId(o[1], c, o[2]))
       = Inventory(userTokens, listings, getListingId(o[1], c, o[2]))]_vars

\* C6 - Idempotent floor recompute: in every reachable state, a second run
\* of updateCollectionFloorAndTotal leaves the collection (floorPrice,
\* listingIds, totalListings) as the first run left it.
C6_RecalcIdempotent ==
  \A c \in DOMAIN collections :
    LET once == updateCollectionFloorAndTotal(c, collections, tokens, listings)
        twice == updateCollectionFloorAndTotal(c, once.collections, once.tokens, listings)
    IN twice.collections[c] = once.collections[c]

\* C7 - Listing-key uniqueness under replay: a full-quantity ItemSold of an
\* Active listing removes the plain key and leaves the Sold record under
\* <key>-<blockTimestamp> with status Sold, the buyer and the sold quantity
\* (added to what the record held); an ItemListed leaves every suffixed
\* record as it was and stores an Active listing with its price and quantity
\* under the plain key.
C7_ListingKeyUniqueness ==
  [][LET e == last'
         id == EventId(e)
     IN /\ e.fullSale =>
             LET sid == Suffixed(id, listings[id].blockTimestamp)
             IN /\ id \notin DOMAIN listings'
                /\ sid \in DOMAIN listings'
                /\ listings'[sid].status = "Sold"
                /\ listings'[sid].buyer = e.buyer
                /\ listings'[sid].user = e.seller
                /\ listings'[sid].quantity \in
                     {e.quantity} \cup
                     {listings[k].quantity + e.quantity : k \in {sid} \cap DOMAIN listings}
        /\ e.kind = "Listed" =>
             /\ \A k \in DOMAIN listings :
                  k.suffix # NoSuffix => k \in DOMAIN listings' /\ listings'[k] = listings[k]
             /\ IsActive(listings', id)
             /\ listings'[id].pricePerItem = e.pricePerItem
             /\ listings'[id].quantity = e.quantity]_vars

\* an ItemListed has followed the full sale of the same key: the Sold record
\* and the new Active listing are both stored
C7_Witness ==
  /\ last.afterSale
  /\ IsActive(listings, EventId(last))
  /\ \E k \in DOMAIN listings :
       /\ k.suffix # NoSuffix
       /\ k = Suffixed(EventId(last), k.suffix)
       /\ listings[k].status = "Sold"
       /\ listings[k].buyer \in Buyers

\* C8 - on-sell guard: an ItemSold for a key with no stored Listing changes
\* no entity.
C8_SoldGuard ==
  [][(last'.kind = "Sold" /\ EventId(last') \notin DOMAIN listings)
     => UNCHANGED store]_vars

\* C9 - on-update guard: an ItemUpdated for a key with no stored Listing
\* leaves the whole store unchanged.
C9_UpdateGuard ==
  [][(last'.kind = "Updated" /\ EventId(last') \notin DOMAIN listings)
     => UNCHANGED store]_vars

\* an ItemUpdated has met its guard in a store that a run of the
\* Recalculator would have changed
C9_Witness ==
  /\ last.kind = "Updated"
  /\ EventId(last) \notin DOMAIN listings
  /\ updateCollectionFloorAndTotal(last.nft, collections, tokens, listings).collections
       # collections

\* C10 - totalListings: after every event a Collection's totalListings is the
\* number of stored Active listings that reference it.
C10_TotalListingsCount ==
  \A c \in DOMAIN collections :
    collections[c].totalListings = Cardinality(ActiveOf(c))

\* --- C11 partial sales
\* C11: once a listing of quantity Q at price P has received ItemSold events
\* whose quantities sum to q < Q, the listing is stored Active with quantity
\* Q - q and the record under <key>-<blockTimestamp> has status Sold,
\* quantity q and totalPrice P * q.
C11_PartialSaleAccounting ==
  [][LET e == last'
         id == EventId(e)
         sid == Suffixed(id, listings[id].blockTimestamp)
     IN e.soldSince > 0 =>
          /\ IsActive(listings', id)
          /\ listings'[id].quantity = e.listedQuantity - e.soldSince
          /\ sid \in DOMAIN listings'
          /\ listings'[sid].status = "Sold"
          /\ listings'[sid].quantity = e.soldSince
          /\ listings'[sid].totalPrice =
               DecimalString(0, listings[id].pricePerItem * e.soldSince, 0)]_vars

\* --- C12 list then cancel
\* quantity of a UserToken, zero when none is stored
HeldQuantity(uts, id) == IF id \in DOMAIN uts THEN uts[id].quantity ELSE 0

\* C12: an ItemListed(S, T, P, n) for a collection with no Active listing
\* stores an Active listing of quantity n and price P and leaves floorPrice P
\* and totalListings 1; an ItemCanceled for the same triple that follows it
\* deletes the Listing, raises the UserToken quantity by n, and leaves
\* floorPrice 0, totalListings 0 and an empty listingIds.
C12_ListThenCancel ==
  [][LET e == last'
         id == EventId(e)
     IN /\ e.onlyListing =>
             /\ IsActive(listings', id)
             /\ listings'[id].quantity = e.quantity
             /\ listings'[id].pricePerItem = e.pricePerItem
             /\ collections'[e.nft].floorPrice = e.pricePerItem
             /\ collections'[e.nft].totalListings = 1
        /\ (e.kind = "Canceled" /\ last.onlyListing /\ EventId(last) = id) =>
             /\ id \notin DOMAIN listings'
             /\ HeldQuantity(userTokens', id) = HeldQuantity(userTokens, id) + last.quantity
             /\ collections'[e.nft].floorPrice = 0
             /\ collections'[e.nft].totalListings = 0
             /\ collections'[e.nft].listingIds = <<>>]_vars

\* --- C13 per-token floor of two sellers
\* the collection of an event is stored with standard ERC1155
MultiUnit(e) == e.nft \in DOMAIN collections /\ collections[e.nft].standard = "ERC1155"

\* C13: in an ERC1155 collection, once two different sellers have listed the
\* same token at prices p1 > p2, in either order, Token.floorPrice is p2; after
\* an ItemCanceled of the p2 listing it is p1.
C13_TwoSellerTokenFloor ==
  [][LET e == last'
         tk == getTokenId(e.nft, e.tokenId)
     IN /\ (e.pairPrice > 0 /\ MultiUnit(e)) =>
             tokens'[tk].floorPrice =
               IF e.pricePerItem < e.pairPrice THEN e.pricePerItem ELSE e.pairPrice
        /\ (/\ e.kind = "Canceled"
            /\ last.pairPrice > 0
            /\ MultiUnit(e)
            /\ e.nft = last.nft /\ e.tokenId = last.tokenId
            /\ e.seller = IF last.pricePerItem < last.pairPrice
                          THEN last.seller ELSE last.pairSeller) =>
             tokens'[tk].floorPrice =
               IF last.pricePerItem < last.pairPrice THEN last.pairPrice ELSE last.pricePerItem]_vars

\* --- C15 formatPrice
\* C15: formatPrice(n) is "0" for 0, and otherwise the whole part of n / 10^18
\* ("0" below 10^18) followed, when the fraction is non-zero, by a point and
\* the 18-digit zero-padded fraction with only its trailing zeros stripped.
C15_PriceFormatting ==
  formatted.output # <<>> =>
    formatted.output = DecimalString(formatted.whole, formatted.mantissa, formatted.shift)

\* the part of C15 the code does satisfy: amounts of at least 10^18 whose
\* fraction has no zero before its last non-zero digit
C15_FormatsPlainAmounts ==
  /\ formatted.output # <<>>
  /\ formatted.whole > 0
  /\ formatted.mantissa > 0 =>
       /\ Len(BigIntToString(formatted.mantissa)) + formatted.shift = DECIMALS
       /\ SplitJoin(BigIntToString(formatted.mantissa), "0") = BigIntToString(formatted.mantissa)
  => formatted.output = DecimalString(formatted.whole, formatted.mantissa, formatted.shift)

\* --- C16 prune
\* the handler of event e reaches its call of updateCollectionFloorAndTotal
\* with the collection stored
RecalcRan(e) ==
  /\ \/ e.kind \in {"Canceled", "Sold"}
     \/ e.kind = "Updated" /\ EventId(e) \in DOMAIN listings
  /\ e.nft \in DOMAIN collections

\* C16: one run of updateCollectionFloorAndTotal leaves listingIds equal to
\* the sequence it found with exactly the entries whose Listing is absent or
\* not Active removed, order preserved.
C16_PruneExactness ==
  [][RecalcRan(last') =>
       collections'[last'.nft].listingIds =
         SelectSeq(collections[last'.nft].listingIds, LAMBDA k : IsActive(listings', k))]_vars

\* --- C17 index completeness
\* C17: after every event the key of every stored Active listing occurs in
\* the listingIds of the Collection the listing references.
C17_IndexCompleteness ==
  \A id \in DOMAIN listings :
    listings[id].status = "Active" =>
      /\ listings[id].collection \in DOMAIN collections
      /\ \E i \in DOMAIN collections[listings[id].collection].listingIds :
           collections[listings[id].collection].listingIds[i] = id

\* --- C18 the index is a set
\* C18: no key occurs more than once in a Collection's listingIds.
C18_ListingIdsIsSet ==
  \A c \in DOMAIN collections :
    \A i, j \in DOMAIN collections[c].listingIds :
      collections[c].listingIds[i] = collections[c].listingIds[j] => i = j

\* --- C19 count and index
\* C19: after every event a Collection's totalListings is the length of its
\* listingIds.
C19_CountIndexAgreement ==
  \A c \in DOMAIN collections :
    collections[c].totalListings = Len(collections[c].listingIds)

\* an ItemCanceled has pruned one of two counted keys: both the append of
\* handleItemListed and the recount of the Recalculator have acted
C19_Witness ==
  /\ last.kind = "Canceled"
  /\ last.nft \in DOMAIN collections
  /\ Len(collections[last.nft].listingIds) = 1
  /\ ActiveOf(last.nft) # {}

\* --- C20 cancel of a listing that is not stored
\* C20: an ItemCanceled for a key with no stored Listing creates or changes
\* no UserToken and creates or removes no Listing.
C20_CancelAtomicity ==
  [][(last'.kind = "Canceled" /\ EventId(last') \notin DOMAIN listings)
       => userTokens' = userTokens /\ listings' = listings]_vars

====
